---- MODULE Spec2Model ----
(***************************************************************************)
(* The online classifier of the notebook "Classifying Wikipedia Changes":  *)
(* the generator get_data with its running length statistics, predict,     *)
(* update, the training loop and the evaluation loop with its confusion    *)
(* matrix.                                                                 *)
(*                                                                         *)
(* Python floats are modelled as binary floating-point numbers <<m, e>>    *)
(* (value m * 2^e, m odd or 0) whose mantissa is rounded to MantissaBits   *)
(* bits, round-half-to-even, with an unbounded exponent: the arithmetic    *)
(* of an IEEE double at a reduced precision.                               *)
(***************************************************************************)
EXTENDS Integers, Sequences, FiniteSets, TLC

\* ------------------------------------------------------------------ bounds
\* Mantissa width of the modelled floats (an IEEE double has 53 bits).
MantissaBits == 10
\* Longest list of records one request to the feed returns.
MaxBatch == 2
\* Observations trained on before the clock is sure to have passed the budget.
MaxTrain == 2
\* Calls made in a row by the unit runs of predict and update.
MaxCalls == 2
\* Evaluation observations (the notebook sets no_test = 10000).
no_test == 2

\* -------------------------------------------------------- float arithmetic
\* F applied to the values of its arguments, each evaluated once.
Strict1(u, F(_)) == CHOOSE r \in { F(x) : x \in {u} } : TRUE

Strict2(u, v, F(_, _)) == CHOOSE r \in { F(x, y) : x \in {u}, y \in {v} } : TRUE

Abs(n) == IF n < 0 THEN -n ELSE n

Sgn(n) == IF n < 0 THEN -1 ELSE IF n > 0 THEN 1 ELSE 0

RECURSIVE Pow2(_)
Pow2(n) == IF n <= 0 THEN 1 ELSE 2 * Pow2(n - 1)

\* Number of binary digits of a >= 0.
RECURSIVE BitLen(_)
BitLen(a) == IF a = 0 THEN 0 ELSE 1 + BitLen(a \div 2)

\* a / 2^k for a > 0, k >= 1, rounded to nearest, ties to even.
RoundShift(a, k) ==
    LET q == a \div Pow2(k)
        r == a % Pow2(k)
        h == Pow2(k - 1)
    IN  IF r > h \/ (r = h /\ q % 2 = 1) THEN q + 1 ELSE q

\* Canonical form of a * 2^e for a > 0: the mantissa made odd.
RECURSIVE Strip(_, _)
Strip(a, e) == IF a % 2 = 0 THEN Strip(a \div 2, e + 1) ELSE <<a, e>>

\* The float nearest to m * 2^e.
Norm(m0, e0) ==
    Strict2(m0, e0, LAMBDA m, e :
        IF m = 0 THEN <<0, 0>>
        ELSE Strict1(BitLen(Abs(m)), LAMBDA n :
                 Strict1(IF n > MantissaBits
                         THEN Strip(RoundShift(Abs(m), n - MantissaBits),
                                    e + n - MantissaBits)
                         ELSE Strip(Abs(m), e),
                         LAMBDA st : <<Sgn(m) * st[1], st[2]>>)))

FromInt(n) == Norm(n, 0)

Zero == <<0, 0>>

One == <<1, 0>>

Half == <<1, -1>>

\* Exponent of the leading bit: |a| < 2^Top(a).
Top(a) == a[2] + BitLen(Abs(a[1]))

Neg(a0) == Strict1(a0, LAMBDA a : <<-a[1], a[2]>>)

Add(a0, b0) ==
    Strict2(a0, b0, LAMBDA a, b :
        IF a[1] = 0 THEN b
        ELSE IF b[1] = 0 THEN a
        ELSE IF Top(a) - Top(b) > MantissaBits + 2 THEN a
        ELSE IF Top(b) - Top(a) > MantissaBits + 2 THEN b
        ELSE IF a[2] >= b[2]
             THEN Norm(a[1] * Pow2(a[2] - b[2]) + b[1], b[2])
             ELSE Norm(a[1] + b[1] * Pow2(b[2] - a[2]), a[2]))

Sub(a, b) == Add(a, Neg(b))

Mul(a0, b0) == Strict2(a0, b0, LAMBDA a, b : Norm(a[1] * b[1], a[2] + b[2]))

\* a / b for b # 0: the quotient to MantissaBits + 2 bits and a sticky bit.
Div(a0, b0) ==
    Strict2(a0, b0, LAMBDA a, b :
        IF a[1] = 0 THEN Zero
        ELSE Strict1(2 * MantissaBits + 2 - BitLen(Abs(a[1])), LAMBDA up :
                 Strict2((Abs(a[1]) * Pow2(up)) \div Abs(b[1]),
                         IF (Abs(a[1]) * Pow2(up)) % Abs(b[1]) = 0 THEN 0 ELSE 1,
                         LAMBDA q, sticky :
                             Norm(Sgn(a[1]) * Sgn(b[1]) * (2 * q + sticky),
                                  a[2] - up - b[2] - 1))))

Less(a, b) == Sub(a, b)[1] < 0

Greater(a, b) == Less(b, a)

FMin(a0, b0) == Strict2(a0, b0, LAMBDA a, b : IF Less(b, a) THEN b ELSE a)

FMax(a0, b0) == Strict2(a0, b0, LAMBDA a, b : IF Greater(b, a) THEN b ELSE a)

\* Largest integer r with r * r <= n.
RECURSIVE ISqrt(_)
ISqrt(n) ==
    IF n < 2 THEN n
    ELSE Strict1(2 * ISqrt(n \div 4), LAMBDA r :
             IF (r + 1) * (r + 1) > n THEN r ELSE r + 1)

\* math.sqrt of a >= 0.
Sqrt(a0) ==
    Strict1(a0, LAMBDA a :
        IF a[1] = 0 THEN Zero
        ELSE Strict1(2 * MantissaBits + 2 - BitLen(a[1]), LAMBDA room :
                 Strict1(IF (a[2] - room) % 2 = 0 THEN room ELSE room + 1, LAMBDA up :
                     Strict1(ISqrt(a[1] * Pow2(up)), LAMBDA r :
                         Norm(2 * r + (IF r * r = a[1] * Pow2(up) THEN 0 ELSE 1),
                              ((a[2] - up) \div 2) - 1)))))

\* The integer floor of a float of moderate size.
FloorInt(a0) ==
    Strict1(a0, LAMBDA a :
        IF a[2] >= 0 THEN a[1] * Pow2(a[2])
        ELSE IF -a[2] > 30 THEN (IF a[1] < 0 THEN -1 ELSE 0)
        ELSE a[1] \div Pow2(-a[2]))

\* log2(e) and ln(2) to 20 binary places.
LOG2E == Norm(1512775, -20)

LN2 == Norm(726817, -20)

\* math.exp: e^z = 2^k * e^r with k = round(z / ln 2) and r = z - k * ln 2,
\* e^r by its Taylor polynomial of degree 4.
Exp(z0) ==
    Strict1(z0, LAMBDA z :
        Strict1(FloorInt(Add(Mul(z, LOG2E), Half)), LAMBDA k :
            Strict1(Sub(z, Mul(FromInt(k), LN2)), LAMBDA r :
                Strict1(Add(One, Mul(r,
                            Add(One, Mul(Div(r, FromInt(2)),
                                Add(One, Mul(Div(r, FromInt(3)),
                                    Add(One, Div(r, FromInt(4))))))))),
                        LAMBDA h : <<h[1], h[2] + k>>))))

\* --------------------------------------------------------------- constants
D == 2

D_sparse == 2^18

K == 3

alpha == Div(One, FromInt(10))

\* ---------------------------------------------------------------- the feed
\* Change records as the feed returns them: the sizes, the three strings and
\* the flags present in the record.
Records ==
    { [oldlen |-> 0, newlen |-> 10, parsedcomment |-> "a", user |-> "a",
       title |-> "a", flags |-> {}],
      [oldlen |-> 10, newlen |-> 0, parsedcomment |-> "b", user |-> "a",
       title |-> "b", flags |-> {"bot", "minor"}],
      [oldlen |-> 5, newlen |-> 5, parsedcomment |-> "b", user |-> "b",
       title |-> "a", flags |-> {"new"}],
      [oldlen |-> 6, newlen |-> 10, parsedcomment |-> "a", user |-> "b",
       title |-> "b", flags |-> {"minor"}] }

\* The lists of records one request can return, the empty list included.
Batches == UNION { [1..n -> Records] : n \in 0..MaxBatch }

\* The builtin hash on the tagged strings of Records: a fixed function with
\* negative values, values beyond D_sparse and equal residues.
hash(s) ==
    CASE s = "comment_a" -> 5
      [] s = "username_a" -> -5
      [] s = "title_a" -> 7
      [] s = "comment_b" -> -(D_sparse + 3)
      [] s = "username_b" -> -2
      [] s = "title_b" -> 3 * D_sparse + 9
      [] OTHER -> 0

\* SparseIndex with the modulus left out.
SparseIndexNoModulus(h) == Abs(h)

\* abs(hash(...)) % D_sparse
SparseIndex(h) == Abs(h) % D_sparse

\* SparseFeatures hashing the bare strings, without the field tags.
SparseFeaturesUntagged(e) ==
    [i \in 0..2 |->
        CASE i = 0 -> SparseIndex(hash(e.parsedcomment))
          [] i = 1 -> SparseIndex(hash(e.user))
          [] i = 2 -> SparseIndex(hash(e.title))]

\* X_sparse of record e: the hashed comment, username and title.
SparseFeatures(e) ==
    [i \in 0..2 |->
        CASE i = 0 -> SparseIndex(hash("comment_" \o e.parsedcomment))
          [] i = 1 -> SparseIndex(hash("username_" \o e.user))
          [] i = 2 -> SparseIndex(hash("title_" \o e.title))]

\* ------------------------------------------------------- length statistics
get_length_statistics(length, n0, mean, M2) ==
    Strict2(n0 + 1, Sub(FromInt(length), mean), LAMBDA n, delta :
        Strict1(Add(mean, Div(delta, FromInt(n))), LAMBDA mean1 :
            Strict1(Add(M2, Mul(delta, Sub(FromInt(length), mean1))), LAMBDA M21 :
                IF n < 2
                THEN [mean |-> mean1, std |-> Zero, M2 |-> M21]
                ELSE [mean |-> mean1, std |-> Sqrt(Div(M21, FromInt(n - 1))),
                      M2 |-> M21])))

\* ------------------------------------------------------ predict and update
\* A list of D_sparse floats, kept as its non-zero entries.
SparseGet(ws, i) == IF i \in DOMAIN ws THEN ws[i] ELSE Zero

SparseSet(ws, i, v0) ==
    Strict1(v0, LAMBDA v :
        IF v = Zero THEN [j \in (DOMAIN ws) \ {i} |-> ws[j]]
        ELSE [j \in (DOMAIN ws) \cup {i} |-> IF j = i THEN v ELSE ws[j]])

\* DenseDot adding weight and feature instead of their product.
RECURSIVE DenseDotSum(_, _, _, _)
DenseDotSum(acc0, wk, x, i) ==
    Strict1(acc0, LAMBDA acc :
        IF i \notin DOMAIN x THEN acc
        ELSE DenseDotSum(Add(acc, Add(wk[i], x[i])), wk, x, i + 1))

RECURSIVE DenseDot(_, _, _, _)
DenseDot(acc0, wk, x, i) ==
    Strict1(acc0, LAMBDA acc :
        IF i \notin DOMAIN x THEN acc
        ELSE DenseDot(Add(acc, Mul(wk[i], x[i])), wk, x, i + 1))

RECURSIVE SparseDot(_, _, _, _)
SparseDot(acc0, wsk, x_sparse, j) ==
    Strict1(acc0, LAMBDA acc :
        IF j \notin DOMAIN x_sparse THEN acc
        ELSE SparseDot(Add(acc, SparseGet(wsk, x_sparse[j])), wsk, x_sparse, j + 1))

\* wTx before it is clipped.
DotProduct(wk, wsk, x, x_sparse) ==
    SparseDot(DenseDot(Zero, wk, x, 0), wsk, x_sparse, 0)

Clip(wTx) == FMin(FMax(wTx, FromInt(-100)), FromInt(100))

\* math.exp raises OverflowError beyond the range of a double (e^709.78).
ExpOverflows(z) == Greater(z, FromInt(709))

Logistic(wTx) == Div(One, Add(One, Exp(Neg(wTx))))

\* predict without the clipping of wTx.
predictUnclipped(wk, wsk, x, x_sparse) ==
    Strict1(DotProduct(wk, wsk, x, x_sparse), LAMBDA wTx :
        IF ExpOverflows(Neg(wTx))
        THEN [raised |-> TRUE, res |-> Zero]
        ELSE [raised |-> FALSE, res |-> Logistic(wTx)])

\* The value predict returns, and whether it raised OverflowError instead.
predict(wk, wsk, x, x_sparse) ==
    Strict1(Clip(DotProduct(wk, wsk, x, x_sparse)), LAMBDA wTx :
        IF ExpOverflows(Neg(wTx))
        THEN [raised |-> TRUE, res |-> Zero]
        ELSE [raised |-> FALSE, res |-> Logistic(wTx)])

RECURSIVE UpdateDense(_, _, _, _)
UpdateDense(wk0, x, step, i) ==
    Strict1(wk0, LAMBDA wk :
        IF i \notin DOMAIN x THEN wk
        ELSE UpdateDense([wk EXCEPT ![i] = Add(wk[i], Mul(step, x[i]))],
                         x, step, i + 1))

RECURSIVE UpdateSparse(_, _, _, _)
UpdateSparse(wsk0, x_sparse, step, j) ==
    Strict1(wsk0, LAMBDA wsk :
        IF j \notin DOMAIN x_sparse THEN wsk
        ELSE UpdateSparse(
                 SparseSet(wsk, x_sparse[j], Add(SparseGet(wsk, x_sparse[j]), step)),
                 x_sparse, step, j + 1))

\* update reading the global alpha instead of its first parameter.
updateGlobalAlpha(a, wk, wsk, x, x_sparse, p, y) ==
    Strict1(Mul(Sub(FromInt(y), p), alpha), LAMBDA step :
        [w |-> UpdateDense(wk, x, step, 0),
         w_sparse |-> UpdateSparse(wsk, x_sparse, step, 0)])

\* update stepping by (p - y) instead of (y - p).
updateWrongSign(a, wk, wsk, x, x_sparse, p, y) ==
    Strict1(Mul(Sub(p, FromInt(y)), a), LAMBDA step :
        [w |-> UpdateDense(wk, x, step, 0),
         w_sparse |-> UpdateSparse(wsk, x_sparse, step, 0)])

\* The weights of one label after update(alpha, w, w_sparse, x, x_sparse, p, y).
update(a, wk, wsk, x, x_sparse, p, y) ==
    Strict1(Mul(Sub(FromInt(y), p), a), LAMBDA step :
        [w |-> UpdateDense(wk, x, step, 0),
         w_sparse |-> UpdateSparse(wsk, x_sparse, step, 0)])

\* ---------------------------------------------------------------- classes
\* ProductStep with the pool as the outer loop: the first position varies fastest.
ProductStepPoolMajor(result, pool) ==
    [n \in 1..(Len(result) * Len(pool)) |->
        Append(result[((n - 1) % Len(result)) + 1],
               pool[((n - 1) \div Len(result)) + 1])]

\* One step of itertools.product: every x of result extended by every y of pool.
ProductStep(result, pool) ==
    [n \in 1..(Len(result) * Len(pool)) |->
        Append(result[((n - 1) \div Len(pool)) + 1], pool[((n - 1) % Len(pool)) + 1])]

RECURSIVE product(_, _)
product(pool, repeat) ==
    IF repeat = 0 THEN << <<>> >> ELSE ProductStep(product(pool, repeat - 1), pool)

Tuples == product(<<0, 1>>, 3)

\* classes = {c: c_i for c_i, c in enumerate(...)}
classes == [c \in {Tuples[n] : n \in 1..Len(Tuples)} |->
               CHOOSE c_i \in 0..(Len(Tuples) - 1) : Tuples[c_i + 1] = c]

\* tuple(y) of a list of three.
AsTuple(y) == <<y[0], y[1], y[2]>>

ZeroMatrix == [i \in 0..(Len(Tuples) - 1) |-> [j \in 0..(Len(Tuples) - 1) |-> 0]]

\* ------------------------------------------------------------------ state
VARIABLES
    pc,                 \* where the run is
    elapsed,            \* datetime.now() - time0 > training_time
    r_json,             \* get_data: the records of the batch not yet iterated
    polls,              \* parity of the empty responses in a row
    length_n, length_mean, length_M2, length_std,
    el,                 \* get_data: the record last iterated (none at first)
    lengths,            \* history: the lengths this generator has seen
    seen,               \* history: <<field, string, index>> of every record yielded
    X, X_sparse, Y,     \* the lists get_data yields
    w, w_sparse, predictions, k, ctr,
    predicted, confusion_matrix, test_ctr,
    args, raised, calls \* unit runs of predict and update

genVars == <<r_json, polls, length_n, length_mean, length_M2, length_std, el,
             lengths, seen, X, X_sparse, Y>>

trainVars == <<w, w_sparse, predictions, k, ctr>>

evalVars == <<predicted, confusion_matrix, test_ctr>>

unitVars == <<args, raised, calls>>

vars == <<pc, elapsed, genVars, trainVars, evalVars, unitVars>>

\* ---------------------------------------------------------------- get_data
\* The locals of a generator that has not fetched yet.
NewGenerator ==
    /\ r_json = <<>>
    /\ polls = 0
    /\ length_n = 0
    /\ length_mean = Zero
    /\ length_M2 = Zero
    /\ length_std = Zero
    /\ el = <<>>
    /\ lengths = <<>>
    /\ seen = {}
    /\ X = [i \in 0..(D - 1) |-> IF i = 0 THEN One ELSE Zero]
    /\ X_sparse = [i \in 0..2 |-> 0]
    /\ Y = [i \in 0..2 |-> 0]

MainInit ==
    /\ pc = "train_next"
    /\ elapsed = FALSE
    /\ NewGenerator
    /\ w = [kk \in 0..(K - 1) |-> [i \in 0..(D - 1) |-> Zero]]
    /\ w_sparse = [kk \in 0..(K - 1) |-> <<>>]
    /\ predictions = [kk \in 0..(K - 1) |-> Zero]
    /\ k = 0
    /\ ctr = 0
    /\ predicted = [i \in 0..2 |-> 0]
    /\ confusion_matrix = ZeroMatrix
    /\ test_ctr = 0

UnitIdle ==
    /\ args = [alpha |-> alpha, w |-> [i \in 0..(D - 1) |-> Zero], w_sparse |-> <<>>,
               x |-> [i \in 0..(D - 1) |-> IF i = 0 THEN One ELSE Zero],
               x_sparse |-> [i \in 0..2 |-> 0], p |-> Zero, y |-> 0,
               last |-> "none"]
    /\ raised = FALSE
    /\ calls = 0

Init == MainInit /\ UnitIdle

\* The clock passes time0 + training_time.
Tick ==
    /\ pc \in {"train_next", "train_body"}
    /\ ~elapsed
    /\ elapsed' = TRUE
    /\ UNCHANGED <<pc, genVars, trainVars, evalVars, unitVars>>

\* requests.get(URL): the next batch, once the last one is used up.
Fetch ==
    /\ pc \in {"train_next", "eval_next"}
    /\ r_json = <<>>
    /\ \E batch \in Batches :
          /\ r_json' = batch
          /\ polls' = IF batch = <<>> THEN 1 - polls ELSE 0
    /\ UNCHANGED <<pc, elapsed, length_n, length_mean, length_M2, length_std, el,
                   lengths, seen, X, X_sparse, Y, trainVars, evalVars, unitVars>>

\* One iteration of "for el in r_json", up to the yield.
Yield ==
    /\ pc \in {"train_next", "eval_next"}
    /\ r_json # <<>>
    /\ pc = "train_next" => (ctr < MaxTrain \/ elapsed)
    /\ \E e \in {Head(r_json)} :
       \E length \in {Abs(e.newlen - e.oldlen)} :
       \E st \in {get_length_statistics(length, length_n + 1, length_mean, length_M2)} :
           /\ r_json' = Tail(r_json)
           /\ el' = <<e>>
           /\ length_n' = length_n + 1
           /\ length_mean' = st.mean
           /\ length_std' = st.std
           /\ length_M2' = st.M2
           /\ lengths' = Append(lengths, length)
           /\ X' = [X EXCEPT ![1] = IF Greater(st.std, Zero)
                                    THEN Div(Sub(FromInt(length), st.mean), st.std)
                                    ELSE FromInt(length)]
           /\ X_sparse' = SparseFeatures(e)
           /\ seen' = seen \cup { <<0, e.parsedcomment, SparseFeatures(e)[0]>>,
                                  <<1, e.user, SparseFeatures(e)[1]>>,
                                  <<2, e.title, SparseFeatures(e)[2]>> }
           /\ Y' = [i \in 0..2 |->
                 CASE i = 0 -> IF "bot" \in e.flags THEN 1 ELSE 0
                   [] i = 1 -> IF "minor" \in e.flags THEN 1 ELSE 0
                   [] i = 2 -> IF "new" \in e.flags THEN 1 ELSE 0]
    /\ pc' = IF pc = "train_next" THEN "train_body" ELSE "eval_body"
    /\ k' = 0
    /\ UNCHANGED <<elapsed, polls, w, w_sparse, predictions, ctr, evalVars, unitVars>>

\* ------------------------------------------------------------ training loop
\* TrainStep with the rows of w and w_sparse one shared list ([[0.] * D] * K).
TrainStepAliased(kk) ==
    Strict1(predict(w[kk], w_sparse[kk], X, X_sparse), LAMBDA pr :
        Strict1(update(alpha, w[kk], w_sparse[kk], X, X_sparse, pr.res, Y[kk]),
                LAMBDA up :
                    [raised |-> pr.raised,
                     predictions |-> [predictions EXCEPT ![kk] = pr.res],
                     w |-> [j \in 0..(K - 1) |-> up.w],
                     w_sparse |-> [j \in 0..(K - 1) |-> up.w_sparse]]))

\* The weights and predictions after the step of label kk on the current lists.
TrainStep(kk) ==
    Strict1(predict(w[kk], w_sparse[kk], X, X_sparse), LAMBDA pr :
        Strict1(update(alpha, w[kk], w_sparse[kk], X, X_sparse, pr.res, Y[kk]),
                LAMBDA up :
                    [raised |-> pr.raised,
                     predictions |-> [predictions EXCEPT ![kk] = pr.res],
                     w |-> [w EXCEPT ![kk] = up.w],
                     w_sparse |-> [w_sparse EXCEPT ![kk] = up.w_sparse]]))

\* TrainLabel with the time check made only when the batch is used up.
TrainLabelBetweenBatches ==
    /\ pc = "train_body"
    /\ \E s \in {TrainStep(k)} :
           IF s.raised
           THEN /\ pc' = "error"
                /\ UNCHANGED <<w, w_sparse, predictions, k, ctr>>
           ELSE /\ w' = s.w
                /\ w_sparse' = s.w_sparse
                /\ predictions' = s.predictions
                /\ k' = k + 1
                /\ ctr' = IF k = K - 1 THEN ctr + 1 ELSE ctr
                /\ pc' = IF k < K - 1 THEN "train_body"
                         ELSE IF elapsed /\ r_json = <<>> THEN "trained"
                         ELSE "train_next"
    /\ UNCHANGED <<elapsed, genVars, evalVars, unitVars>>

\* One pass of "for k in range(K)"; after the last, ctr += 1 and the time check.
TrainLabel ==
    /\ pc = "train_body"
    /\ \E s \in {TrainStep(k)} :
           IF s.raised
           THEN /\ pc' = "error"
                /\ UNCHANGED <<w, w_sparse, predictions, k, ctr>>
           ELSE /\ w' = s.w
                /\ w_sparse' = s.w_sparse
                /\ predictions' = s.predictions
                /\ k' = k + 1
                /\ ctr' = IF k = K - 1 THEN ctr + 1 ELSE ctr
                /\ pc' = IF k < K - 1 THEN "train_body"
                         ELSE IF elapsed THEN "trained" ELSE "train_next"
    /\ UNCHANGED <<elapsed, genVars, evalVars, unitVars>>

\* ---------------------------------------------------------- evaluation loop
\* StartEvaluation with the running statistics kept from the training generator
\* (length_n, length_mean and length_M2 as globals of the notebook).
StartEvaluationSharedStatistics ==
    /\ pc = "trained"
    /\ pc' = "eval_next"
    /\ test_ctr' = 0
    /\ confusion_matrix' = ZeroMatrix
    /\ predicted' = [i \in 0..2 |-> 0]
    /\ r_json' = <<>>
    /\ polls' = 0
    /\ el' = <<>>
    /\ lengths' = <<>>
    /\ seen' = seen
    /\ X' = [i \in 0..(D - 1) |-> IF i = 0 THEN One ELSE Zero]
    /\ X_sparse' = [i \in 0..2 |-> 0]
    /\ Y' = [i \in 0..2 |-> 0]
    /\ UNCHANGED <<elapsed, length_n, length_mean, length_M2, length_std,
                   trainVars, unitVars>>

\* The evaluation cell up to its call of get_data().
StartEvaluation ==
    /\ pc = "trained"
    /\ pc' = "eval_next"
    /\ test_ctr' = 0
    /\ confusion_matrix' = ZeroMatrix
    /\ predicted' = [i \in 0..2 |-> 0]
    /\ r_json' = <<>>
    /\ polls' = 0
    /\ length_n' = 0
    /\ length_mean' = Zero
    /\ length_M2' = Zero
    /\ length_std' = Zero
    /\ el' = <<>>
    /\ lengths' = <<>>
    /\ seen' = seen
    /\ X' = [i \in 0..(D - 1) |-> IF i = 0 THEN One ELSE Zero]
    /\ X_sparse' = [i \in 0..2 |-> 0]
    /\ Y' = [i \in 0..2 |-> 0]
    /\ UNCHANGED <<elapsed, trainVars, unitVars>>

\* confusion_matrix[i][j] += 1 with the rows one shared list ([[0] * 8] * 8).
IncrementAliased(cm, i, j) == [r \in DOMAIN cm |-> [cm[r] EXCEPT ![j] = @ + 1]]

\* confusion_matrix[i][j] += 1
Increment(cm, i, j) == [cm EXCEPT ![i][j] = @ + 1]

\* Threshold with "p >= .5" for "p > .5".
RECURSIVE ThresholdInclusive(_, _)
ThresholdInclusive(pred0, kk) ==
    Strict1(pred0, LAMBDA pred :
        IF kk = K THEN pred
        ELSE Strict1(predict(w[kk], w_sparse[kk], X, X_sparse).res, LAMBDA p :
                 ThresholdInclusive(
                     [pred EXCEPT ![kk] = IF ~Less(p, Half) THEN 1 ELSE 0], kk + 1)))

\* predicted after "for k in range(K)" of the evaluation loop.
RECURSIVE Threshold(_, _)
Threshold(pred0, kk) ==
    Strict1(pred0, LAMBDA pred :
        IF kk = K THEN pred
        ELSE Strict1(predict(w[kk], w_sparse[kk], X, X_sparse).res, LAMBDA p :
                 Threshold([pred EXCEPT ![kk] = IF Greater(p, Half) THEN 1 ELSE 0],
                           kk + 1)))

EvalRaises == \E kk \in 0..(K - 1) : predict(w[kk], w_sparse[kk], X, X_sparse).raised

\* EvalObservation with the update call of the training loop left in.
EvalObservationUpdating ==
    /\ pc = "eval_body"
    /\ IF EvalRaises
       THEN /\ pc' = "error"
            /\ UNCHANGED evalVars
       ELSE \E pred \in {Threshold(predicted, 0)} :
            \E i \in {classes[AsTuple(Y)]}, j \in {classes[AsTuple(pred)]} :
                /\ predicted' = pred
                /\ confusion_matrix' = Increment(confusion_matrix, i, j)
                /\ test_ctr' = test_ctr + 1
                /\ pc' = IF test_ctr + 1 >= no_test THEN "done" ELSE "eval_next"
    /\ w' = TrainStep(0).w
    /\ w_sparse' = TrainStep(0).w_sparse
    /\ UNCHANGED <<elapsed, genVars, predictions, k, ctr, unitVars>>

\* The body of the evaluation loop for the observation just yielded.
EvalObservation ==
    /\ pc = "eval_body"
    /\ IF EvalRaises
       THEN /\ pc' = "error"
            /\ UNCHANGED evalVars
       ELSE \E pred \in {Threshold(predicted, 0)} :
            \E i \in {classes[AsTuple(Y)]}, j \in {classes[AsTuple(pred)]} :
                /\ predicted' = pred
                /\ confusion_matrix' = Increment(confusion_matrix, i, j)
                /\ test_ctr' = test_ctr + 1
                /\ pc' = IF test_ctr + 1 >= no_test THEN "done" ELSE "eval_next"
    /\ UNCHANGED <<elapsed, genVars, trainVars, unitVars>>

Next ==
    \/ Tick
    \/ Fetch
    \/ Yield
    \/ TrainLabel
    \/ StartEvaluation
    \/ EvalObservation

Spec == Init /\ [][Next]_vars

\* Every step of the run that can be taken is taken in the end.
FairSpec == Spec /\ WF_vars(Next)

\* ------------------------------------- the evaluation cell run on its own
\* Weights the evaluation cell can find: those of the initialisation cell, and
\* weights that give label 0 a dot product of 0, 1/2 or -1 on the records of the
\* feed, label 1 none and label 2 one beyond the clip boundary.
EvalWeights ==
    { [w |-> [kk \in 0..(K - 1) |-> [i \in 0..(D - 1) |-> Zero]],
       w_sparse |-> [kk \in 0..(K - 1) |-> <<>>]],
      [w |-> [kk \in 0..(K - 1) |->
                 [i \in 0..(D - 1) |-> IF kk = 2 /\ i = 0 THEN FromInt(1000) ELSE Zero]],
       w_sparse |-> [kk \in 0..(K - 1) |->
                        IF kk = 0 THEN [i \in {3, 5} |-> IF i = 3 THEN Half ELSE Neg(Half)]
                        ELSE <<>>]] }

EvalInit ==
    /\ pc = "trained"
    /\ elapsed = TRUE
    /\ NewGenerator
    /\ \E ws \in EvalWeights : w = ws.w /\ w_sparse = ws.w_sparse
    /\ predictions = [kk \in 0..(K - 1) |-> Zero]
    /\ k = 0
    /\ ctr = 0
    /\ predicted = [i \in 0..2 |-> 0]
    /\ confusion_matrix = ZeroMatrix
    /\ test_ctr = 0
    /\ UnitIdle

EvalNext ==
    \/ StartEvaluation
    \/ Fetch
    \/ Yield
    \/ EvalObservation

EvalSpec == EvalInit /\ [][EvalNext]_vars

\* ------------------------------------------- unit runs of predict and update
\* Arguments the two functions are called with.
UnitW ==
    { [i \in 0..(D - 1) |-> Zero],
      [i \in 0..(D - 1) |-> IF i = 0 THEN FromInt(1000) ELSE Zero],
      [i \in 0..(D - 1) |-> IF i = 0 THEN FromInt(-1000) ELSE Zero],
      [i \in 0..(D - 1) |-> IF i = 0 THEN Half ELSE FromInt(-2)] }

UnitWSparse ==
    { <<>>,
      [i \in {5} |-> FromInt(200)],
      [i \in {3, 5} |-> IF i = 3 THEN FromInt(-60) ELSE Half] }

UnitX ==
    { [i \in 0..(D - 1) |-> IF i = 0 THEN One ELSE Zero],
      [i \in 0..(D - 1) |-> IF i = 0 THEN One ELSE FromInt(10)],
      [i \in 0..(D - 1) |-> IF i = 0 THEN One ELSE Neg(Half)] }

UnitXSparse == { SparseFeatures(e) : e \in Records }

UnitP == { Half, One, Norm(1, -3) }

UnitInit ==
    /\ MainInit
    /\ args \in [alpha : {Zero, alpha}, w : UnitW, w_sparse : UnitWSparse, x : UnitX,
                 x_sparse : UnitXSparse, p : UnitP, y : {0, 1}, last : {"none"}]
    /\ raised = FALSE
    /\ calls = 0

mainVars == <<pc, elapsed, genVars, trainVars, evalVars>>

\* p = predict(w, w_sparse, x, x_sparse)
UnitPredict ==
    /\ calls < MaxCalls
    /\ ~raised
    /\ \E pr \in {predict(args.w, args.w_sparse, args.x, args.x_sparse)} :
          /\ raised' = pr.raised
          /\ args' = [args EXCEPT !.p = IF pr.raised THEN @ ELSE pr.res,
                                  !.last = "predict"]
    /\ calls' = calls + 1
    /\ UNCHANGED mainVars

\* update(alpha, w, w_sparse, x, x_sparse, p, y)
UnitUpdate ==
    /\ calls < MaxCalls
    /\ ~raised
    /\ \E up \in {update(args.alpha, args.w, args.w_sparse, args.x, args.x_sparse,
                        args.p, args.y)} :
          args' = [args EXCEPT !.w = up.w, !.w_sparse = up.w_sparse, !.last = "update"]
    /\ calls' = calls + 1
    /\ UNCHANGED <<mainVars, raised>>

UnitNext == UnitPredict \/ UnitUpdate

UnitSpec == UnitInit /\ [][UnitNext]_vars

\* ------------------------------------------------------------------ claims
\* |a - b| within 2^-(MantissaBits - 4) of the larger magnitude.
Close(a, b) ==
    LET d == Sub(a, b)
        m == FMax(FMax(a, Neg(a)), FMax(b, Neg(b)))
    IN  ~Greater(FMax(d, Neg(d)), Mul(m, Norm(1, 4 - MantissaBits)))

RECURSIVE SumLengths(_)
SumLengths(s) == IF s = <<>> THEN Zero ELSE Add(FromInt(Head(s)), SumLengths(Tail(s)))

BatchMean(s) == Div(SumLengths(s), FromInt(Len(s)))

RECURSIVE SumSquares(_, _)
SumSquares(s, mean) ==
    IF s = <<>> THEN Zero
    ELSE Add(Mul(Sub(FromInt(Head(s)), mean), Sub(FromInt(Head(s)), mean)),
             SumSquares(Tail(s), mean))

BatchStd(s) ==
    IF Len(s) < 2 THEN Zero
    ELSE Sqrt(Div(SumSquares(s, BatchMean(s)), FromInt(Len(s) - 1)))

\* C1: after the k-th observation of a generator (k >= 1) the running mean equals
\* the batch mean of the k lengths seen, and the running std equals their batch
\* sample standard deviation (0 when k = 1), within floating-point tolerance.
C1_WelfordEquivalence ==
    length_n >= 1 =>
        /\ Close(length_mean, BatchMean(lengths))
        /\ Close(length_std, BatchStd(lengths))

\* C2: on the first observation of a generator the std is 0 and X[1] is the raw
\* length; in general X[1] is (length - mean)/std when std > 0 and the raw
\* length when std = 0.
C2_FirstObservationFallback ==
    length_n >= 1 =>
        LET length == lengths[Len(lengths)]
        IN  /\ length_n = 1 => (length_std = Zero /\ X[1] = FromInt(length))
            /\ X[1] = IF Greater(length_std, Zero)
                      THEN Div(Sub(FromInt(length), length_mean), length_std)
                      ELSE FromInt(length)

\* C3: the weights of label j change only in the training step of label j, whose
\* update is passed the target Y[j] of the current observation; the step of a
\* label leaves the weights of every other label as they were.
C3_LabelIndependence ==
    [][\A j \in 0..(K - 1) :
          (w'[j] # w[j] \/ w_sparse'[j] # w_sparse[j]) =>
              /\ pc = "train_body"
              /\ k = j
              /\ LET p == predict(w[j], w_sparse[j], X, X_sparse).res
                     up == update(alpha, w[j], w_sparse[j], X, X_sparse, p, Y[j])
                 IN  w'[j] = up.w /\ w_sparse'[j] = up.w_sparse]_vars

\* The step of label 1 has changed its weights and left those of label 0 different.
C3_Witness ==
    /\ pc = "train_body"
    /\ k = 2
    /\ w[1] # w[0]
    /\ w_sparse[1] # w_sparse[0]
    /\ Y[0] # Y[1]

RECURSIVE SumRow(_, _)
SumRow(row, j) == IF j \notin DOMAIN row THEN 0 ELSE row[j] + SumRow(row, j + 1)

RECURSIVE SumMatrix(_, _)
SumMatrix(cm, i) == IF i \notin DOMAIN cm THEN 0 ELSE SumRow(cm[i], 0) + SumMatrix(cm, i + 1)

\* C4: the entries of confusion_matrix always sum to test_ctr; an evaluation
\* observation adds exactly 1 to the cell [actual tuple][predicted tuple] and
\* nothing to any other cell; the loop stops with the sum equal to no_test.
C4_ConfusionConservation ==
    [][/\ SumMatrix(confusion_matrix, 0) = test_ctr
       /\ SumMatrix(confusion_matrix', 0) = test_ctr'
       /\ test_ctr' = test_ctr + 1 =>
             \A i, j \in 0..7 :
                 confusion_matrix'[i][j] =
                     IF i = classes[AsTuple(Y)] /\ j = classes[AsTuple(predicted')]
                     THEN confusion_matrix[i][j] + 1
                     ELSE confusion_matrix[i][j]
       /\ test_ctr' = test_ctr => confusion_matrix' = confusion_matrix
       /\ pc' = "done" => SumMatrix(confusion_matrix', 0) = no_test]_vars

\* The evaluation has ended with a cell off the first column counted.
C4_Witness ==
    /\ pc = "done"
    /\ test_ctr = no_test
    /\ \E i \in 0..7, j \in 1..7 : confusion_matrix[i][j] > 0

\* C5: from the start of the evaluation loop to its end no entry of w or w_sparse
\* changes.
C5_EvaluationInferenceOnly ==
    [][(pc \in {"trained", "eval_next", "eval_body", "done"}) =>
          (w' = w /\ w_sparse' = w_sparse)]_vars

\* Observations have been evaluated with weights that training had changed.
C5_Witness ==
    /\ pc = "done"
    /\ test_ctr >= 1
    /\ \E j \in 0..(K - 1) : w_sparse[j] # <<>> /\ w[j][1] # Zero

\* C6: whatever the feed returns, once the time budget has elapsed the training
\* phase ends.
C6_TrainingTerminates == elapsed ~> (pc \notin {"train_next", "train_body"})

\* C7: a call of update with alpha = 0 leaves every entry of w and w_sparse as it
\* was, whatever the weights, the features, p and y.
C7_ZeroAlphaNoOp ==
    [][(args.alpha = Zero) =>
          (args'.w = args.w /\ args'.w_sparse = args.w_sparse)]_vars

\* update has been called with alpha = 0 on non-zero features and a non-zero error.
C7_Witness ==
    /\ args.alpha = Zero
    /\ args.last = "update"
    /\ calls = MaxCalls
    /\ args.p # FromInt(args.y)
    /\ args.x[1] # Zero
    /\ args.w_sparse # <<>>

\* C8: with all-zero dense and sparse weights predict returns exactly 0.5, for
\* every dense feature vector and every list of sparse indices.
C8_ZeroWeightsPredictHalf ==
    (/\ args.last = "predict"
     /\ args.w = [i \in 0..(D - 1) |-> Zero]
     /\ args.w_sparse = <<>>)
        => (args.p = Half /\ ~raised)

\* predict has returned for zero weights and a non-zero length feature.
C8_Witness ==
    /\ args.last = "predict"
    /\ args.w = [i \in 0..(D - 1) |-> Zero]
    /\ args.w_sparse = <<>>
    /\ args.x[1] = FromInt(10)
    /\ args.p = Half

\* Hash values of either sign, below and beyond D_sparse.
HashSamples ==
    { -2147483647, -D_sparse - 1, -D_sparse, -2, 0, 1, D_sparse - 1, D_sparse,
      2147483647 }
    \cup { hash(t \o v) : t \in {"comment_", "username_", "title_"}, v \in {"a", "b"} }

\* C9: every entry of X_sparse is in 0..D_sparse - 1, for hash values of either
\* sign, and a field string seen again gets the index it got before.
C9_SparseIndexInRange ==
    /\ \A h \in HashSamples : SparseIndex(h) \in 0..(D_sparse - 1)
    /\ el # <<>> => \A i \in 0..2 : X_sparse[i] \in 0..(D_sparse - 1)
    /\ \A s, t \in seen : (s[1] = t[1] /\ s[2] = t[2]) => s[3] = t[3]

\* A username with a negative hash has been indexed in a second record.
C9_Witness ==
    /\ length_n >= 2
    /\ el # <<>>
    /\ hash("username_" \o el[1].user) < 0
    /\ X_sparse[1] = 5
    /\ hash("comment_" \o el[1].parsedcomment) < -D_sparse

\* The dot product of the arguments of the unit run.
UnitDot == DotProduct(args.w, args.w_sparse, args.x, args.x_sparse)

\* C10 as stated: predict never raises OverflowError, returns p with 0 < p < 1,
\* and returns the result of dot product 100 (-100) for every dot product
\* >= 100 (<= -100).
C10_PredictStrictlyInside ==
    /\ ~raised
    /\ args.last = "predict" =>
          /\ Greater(args.p, Zero)
          /\ Less(args.p, One)
          /\ ~Less(UnitDot, FromInt(100)) => args.p = Logistic(FromInt(100))
          /\ ~Greater(UnitDot, FromInt(-100)) => args.p = Logistic(FromInt(-100))

\* C10 amended: predict never raises OverflowError, returns p with 0 < p <= 1,
\* and returns the result of dot product 100 (-100) for every dot product
\* >= 100 (<= -100).
C10_PredictRange ==
    /\ ~raised
    /\ args.last = "predict" =>
          /\ Greater(args.p, Zero)
          /\ ~Greater(args.p, One)
          /\ ~Less(UnitDot, FromInt(100)) => args.p = Logistic(FromInt(100))
          /\ ~Greater(UnitDot, FromInt(-100)) => args.p = Logistic(FromInt(-100))

\* predict has returned for a dot product beyond the upper clip boundary.
C10_Witness ==
    /\ args.last = "predict"
    /\ Greater(UnitDot, FromInt(100))
    /\ args.p = One

\* The dot product with every index of x_sparse counted once, however often the
\* list holds it.
RECURSIVE SparseDotOnce(_, _, _, _)
SparseDotOnce(acc0, wsk, x_sparse, j) ==
    Strict1(acc0, LAMBDA acc :
        IF j \notin DOMAIN x_sparse THEN acc
        ELSE IF \E i \in DOMAIN x_sparse : i < j /\ x_sparse[i] = x_sparse[j]
             THEN SparseDotOnce(acc, wsk, x_sparse, j + 1)
             ELSE SparseDotOnce(Add(acc, SparseGet(wsk, x_sparse[j])), wsk,
                                x_sparse, j + 1))

\* C11: in a training step every index selected by the observation adds its
\* weight once to the dot product of predict and receives the increment
\* alpha * (y - p) once in update, also when two or three of the hashed fields
\* have the same index.
C11_OneHotSparse ==
    [][(pc = "train_body" /\ k' = k + 1) =>
          LET p == predictions'[k]
              step == Mul(alpha, Sub(FromInt(Y[k]), p))
          IN  /\ p = Logistic(Clip(SparseDotOnce(DenseDot(Zero, w[k], X, 0),
                                                 w_sparse[k], X_sparse, 0)))
              /\ \A i \in DOMAIN X_sparse :
                    SparseGet(w_sparse'[k], X_sparse[i]) =
                        Add(SparseGet(w_sparse[k], X_sparse[i]), step)]_vars

\* v after step has been added to it n times.
RECURSIVE AddTimes(_, _, _)
AddTimes(v, step, n) == IF n = 0 THEN v ELSE AddTimes(Add(v, step), step, n - 1)

\* How often the list x_sparse holds idx.
Occurrences(x_sparse, idx) ==
    Cardinality({i \in DOMAIN x_sparse : x_sparse[i] = idx})

\* C12: the training step of label k predicts p from the weights of label k as
\* they are before the step, then sets w[k][i] to its old value plus
\* alpha * (y - p) * x[i] for i in {0, 1}, adds alpha * (y - p) to w_sparse[k][idx]
\* for the indices of x_sparse (once for each element of the list), and leaves
\* every other entry of w_sparse[k] as it was.
C12_UpdateRule ==
    [][(pc = "train_body" /\ k' = k + 1) =>
          LET p == Logistic(Clip(DotProduct(w[k], w_sparse[k], X, X_sparse)))
              step == Mul(alpha, Sub(FromInt(Y[k]), p))
              selected == {X_sparse[i] : i \in DOMAIN X_sparse}
              others == ((DOMAIN w_sparse[k]) \cup (DOMAIN w_sparse'[k])
                            \cup {0, 1, D_sparse - 1}) \ selected
          IN  /\ predictions'[k] = p
              /\ \A i \in 0..(D - 1) : w'[k][i] = Add(w[k][i], Mul(step, X[i]))
              /\ \A idx \in selected :
                    SparseGet(w_sparse'[k], idx) =
                        AddTimes(SparseGet(w_sparse[k], idx), step,
                                 Occurrences(X_sparse, idx))
              /\ \A idx \in others :
                    SparseGet(w_sparse'[k], idx) = SparseGet(w_sparse[k], idx)]_vars

\* A label has been trained on a second observation that selects other indices
\* than the first: a weight the first one set is left alone.
C12_Witness ==
    /\ pc = "train_body"
    /\ k = 1
    /\ ctr >= 1
    /\ w[0][1] # Zero
    /\ \E idx \in DOMAIN w_sparse[0] : \A i \in DOMAIN X_sparse : X_sparse[i] # idx
    /\ \E i \in DOMAIN X_sparse : X_sparse[i] \in DOMAIN w_sparse[0]

\* C13 as stated: the training loop stops only between batches, with every
\* record of the batch last fetched trained on.
C13_StopsBetweenBatches == pc = "trained" => r_json = <<>>

\* C13 amended: the time check is made after every observation. An observation
\* that has been yielded is trained on for all K labels; the loop stops right
\* after the first observation at whose end the budget has elapsed, whatever is
\* left of the batch, and at no other place.
C13_StopsAfterObservation ==
    [][/\ (pc = "train_body" /\ pc' \notin {"train_body", "error"}) =>
             (k = K - 1 /\ ctr' = ctr + 1
              /\ pc' = IF elapsed THEN "trained" ELSE "train_next")
       /\ (pc # "trained" /\ pc' = "trained") =>
             (pc = "train_body" /\ k = K - 1 /\ elapsed /\ r_json' = r_json)
       /\ (pc = "train_next" /\ pc' # pc) => pc' = "train_body"]_vars

\* Training has stopped after one observation with a record of its batch left.
C13_Witness ==
    /\ pc = "trained"
    /\ ctr = 1
    /\ r_json # <<>>

\* The string that is hashed for the string s of field f.
TaggedString(f, s) ==
    CASE f = 0 -> "comment_" \o s
      [] f = 1 -> "username_" \o s
      [] f = 2 -> "title_" \o s

\* C14 as stated: one string seen in two different fields never has the same
\* sparse index in both.
C14_FieldsNeverShareIndex ==
    \A s, t \in seen : (s[2] = t[2] /\ s[1] # t[1]) => s[3] # t[3]

\* C14 amended: the strings hashed for s as comment, username and title are
\* pairwise different, and each index is that of the hash of the tagged string;
\* so one string in two fields shares an index exactly when the absolute hashes
\* of its two tagged strings agree modulo D_sparse.
C14_TagsSeparateHashedStrings ==
    \A s, t \in seen :
        /\ s[3] = Abs(hash(TaggedString(s[1], s[2]))) % D_sparse
        /\ (s[2] = t[2] /\ s[1] # t[1]) =>
              /\ TaggedString(s[1], s[2]) # TaggedString(t[1], t[2])
              /\ s[3] = t[3] <=>
                     (Abs(hash(TaggedString(s[1], s[2]))) % D_sparse
                         = Abs(hash(TaggedString(t[1], t[2]))) % D_sparse)

\* One string has been seen in three fields: two share an index, the third
\* has its own.
C14_Witness ==
    \E s, t, u \in seen :
        /\ s[2] = t[2] /\ t[2] = u[2]
        /\ s[1] = 0 /\ t[1] = 1 /\ u[1] = 2
        /\ s[3] = t[3]
        /\ u[3] # s[3]

\* 4*bot + 2*minor + new of a list of three bits.
LexIndex(y) == 4 * y[0] + 2 * y[1] + y[2]

\* C15: classes maps the 8 tuples of {0,1}^3 one-to-one onto 0..7, the tuple
\* (bot, minor, new) to 4*bot + 2*minor + new; an evaluation observation counts
\* in the row of the actual tuple and the column of the predicted tuple, both
\* within 0..7.
C15_ConfusionIndexing ==
    [][/\ DOMAIN classes = {<<b, m, n>> : b \in {0, 1}, m \in {0, 1}, n \in {0, 1}}
       /\ \A c \in DOMAIN classes : classes[c] = 4 * c[1] + 2 * c[2] + c[3]
       /\ \A c, d \in DOMAIN classes : classes[c] = classes[d] => c = d
       /\ {classes[c] : c \in DOMAIN classes} = 0..7
       /\ DOMAIN confusion_matrix = 0..7
       /\ \A i \in 0..7 : DOMAIN confusion_matrix[i] = 0..7
       /\ test_ctr' = test_ctr + 1 =>
             /\ LexIndex(Y) \in 0..7
             /\ LexIndex(predicted') \in 0..7
             /\ confusion_matrix'[LexIndex(Y)][LexIndex(predicted')] =
                    confusion_matrix[LexIndex(Y)][LexIndex(predicted')] + 1]_vars

\* An observation with actual tuple (1,1,0) or (0,0,1) has been counted in a
\* column other than 0 and other than its row.
C15_Witness ==
    /\ pc = "done"
    /\ \E i \in {1, 6}, j \in 1..7 : i # j /\ confusion_matrix[i][j] > 0

\* Every dense and sparse weight of every label is 0.
AllZeroWeights ==
    /\ \A kk \in 0..(K - 1) : \A i \in 0..(D - 1) : w[kk][i] = Zero
    /\ \A kk \in 0..(K - 1) : w_sparse[kk] = <<>>

\* C16: the predicted bit of label k is 1 exactly when the probability predict
\* returns is greater than 0.5, and 0 at exactly 0.5; with all-zero weights every
\* observation is predicted (0,0,0) and only column 0 of the confusion matrix is
\* ever incremented.
C16_ThresholdHalf ==
    [][/\ test_ctr' = test_ctr + 1 =>
             \A kk \in 0..(K - 1) :
                 LET p == Logistic(Clip(DotProduct(w[kk], w_sparse[kk], X, X_sparse)))
                 IN  /\ predicted'[kk] = 1 <=> Greater(p, Half)
                     /\ predicted'[kk] = 0 <=> ~Greater(p, Half)
                     /\ p = Half => predicted'[kk] = 0
       /\ AllZeroWeights =>
             /\ \A kk \in 0..(K - 1) : predicted'[kk] = 0
             /\ \A i \in 0..7, j \in 1..7 : confusion_matrix'[i][j] = 0]_vars

\* The evaluation has ended on all-zero weights with an observation of actual
\* tuple (1,1,0) counted in column 0.
C16_Witness ==
    /\ pc = "done"
    /\ AllZeroWeights
    /\ test_ctr = no_test
    /\ confusion_matrix[6][0] > 0

\* With weights that are not zero, an observation whose dot product for label 0
\* is exactly 0 has been predicted 0 for it, and 1 for label 2.
C16_WitnessExactHalf ==
    /\ pc \in {"eval_next", "done"}
    /\ test_ctr >= 1
    /\ w_sparse[0] # <<>>
    /\ DotProduct(w[0], w_sparse[0], X, X_sparse) = Zero
    /\ predicted[0] = 0
    /\ predicted[2] = 1

\* The count, mean, M2 and std a generator holds after the lengths s, and the
\* X[1] it yields for the last of them, starting from 0, 0. and 0.
RECURSIVE StatisticsOf(_)
StatisticsOf(s) ==
    IF s = <<>>
    THEN [n |-> 0, mean |-> Zero, M2 |-> Zero, std |-> Zero, x1 |-> Zero]
    ELSE Strict1(StatisticsOf(SubSeq(s, 1, Len(s) - 1)), LAMBDA prev :
             Strict1(get_length_statistics(s[Len(s)], prev.n + 1, prev.mean, prev.M2),
                     LAMBDA st :
                         [n |-> prev.n + 1, mean |-> st.mean, M2 |-> st.M2,
                          std |-> st.std,
                          x1 |-> IF Greater(st.std, Zero)
                                 THEN Div(Sub(FromInt(s[Len(s)]), st.mean), st.std)
                                 ELSE FromInt(s[Len(s)])]))

\* C17: in the evaluation phase the count, mean, M2 and std, and the normalized
\* length X[1] of the i-th evaluation observation, are those of a generator
\* started from 0 on the first i evaluation lengths alone, whatever lengths the
\* training generator saw.
C17_StatisticsPerGenerator ==
    (pc \in {"eval_next", "eval_body", "done"}) =>
        Strict1(StatisticsOf(lengths), LAMBDA st :
            /\ length_n = st.n
            /\ length_mean = st.mean
            /\ length_M2 = st.M2
            /\ length_std = st.std
            /\ X[1] = st.x1)

\* The first evaluation observation has been yielded after training on two
\* observations: its X[1] is that of a generator that has seen its length alone.
C17_Witness ==
    /\ pc = "eval_body"
    /\ ctr >= 2
    /\ length_n = 1
    /\ lengths = <<10>>
    /\ X[1] = StatisticsOf(<<10>>).x1

====
